---- MODULE Spec2Model ----
(***************************************************************************)
(* Model of the variable store and the variable calculation endpoint of    *)
(* the credit scoring engine (Backend/app/api/v1/variables.py).            *)
(*                                                                         *)
(* The four tables are sequences of rows; the index of a row is its        *)
(* autoincrement primary key.  The repository holds two drafts of the      *)
(* models, which name the columns differently (version_number, sql_script, *)
(* value in backend/app/models; version, code, result in                   *)
(* Backend/app/models).  The model uses the names that update_variable and *)
(* calculate_variables address, those of backend/app/models, for every     *)
(* handler; both drafts declare the same three uniqueness constraints.     *)
(*                                                                         *)
(* Every request is served by one worker.  A handler is cut into steps at  *)
(* its store accesses: the queries that open it, and the flush-and-commit  *)
(* that ends it; steps of different workers interleave.  An exception no   *)
(* handler catches (IntegrityError, AttributeError, a failing statement)   *)
(* rolls the session back and is answered with status 500.                 *)
(*                                                                         *)
(* A fragment text is a sequence of tokens: " " is a whitespace character, *)
(* ";" the statement terminator, any other token a piece of SQL.           *)
(***************************************************************************)
EXTENDS Integers, Sequences, FiniteSets, TLC

VARIABLES variables, variable_versions, variable_results, variable_executions,
          pc, req, loc, resp, nreq

vars == <<variables, variable_versions, variable_results, variable_executions,
          pc, req, loc, resp, nreq>>

store == <<variables, variable_versions, variable_results, variable_executions>>

-----------------------------------------------------------------------------
(* Bounds of the model *)

MaxRequests == 4
MaxVersion == 2

Workers == {1, 2}
Apps == {"A1"}
Names == {"age", "income"}

\* the ids a request may name; an id beyond the rows of the variables table
\* is an unknown id
RequestIds == 1 .. Cardinality(Names)

F30 == <<"SELECT 30">>
F31 == <<" ", "SELECT 31", ";">>
FBad == <<"SELEC">>
CreateScripts == {F30, FBad}
UpdateScripts == {F31, FBad}

\* the variable_ids lists of the calculate requests
IdLists == {<<>>, <<1>>, <<2>>, <<1, 2>>, <<1, 1>>}

-----------------------------------------------------------------------------
(* Sequences as tables *)

Range(s) == {s[i] : i \in DOMAIN s}

SetMax(S) == CHOOSE m \in S : \A x \in S : x <= m

-----------------------------------------------------------------------------
(* Fragment text: str.strip(), str.rstrip(";") and the scalar subquery *)

RECURSIVE lstrip(_, _)
lstrip(s, c) ==
    IF s # <<>> /\ Head(s) = c THEN lstrip(Tail(s), c) ELSE s

RECURSIVE rstrip(_, _)
rstrip(s, c) ==
    IF s # <<>> /\ s[Len(s)] = c THEN rstrip(SubSeq(s, 1, Len(s) - 1), c) ELSE s

strip(s) == rstrip(lstrip(s, " "), " ")

sql_code(sql_script) == rstrip(strip(sql_script), ";")

\* the scalar a well-formed fragment body selects
Scalar == [t \in {"SELECT 30", "SELECT 31"} |-> IF t = "SELECT 30" THEN 30 ELSE 31]

NonBlank(code) == SelectSeq(code, LAMBDA t : t # " ")

\* CAST(( code ) AS TEXT): the store accepts the subquery when, whitespace
\* apart, it is exactly one well-formed SELECT
Executes(code) == Len(NonBlank(code)) = 1 /\ NonBlank(code)[1] \in DOMAIN Scalar

CastAsText(code) == ToString(Scalar[NonBlank(code)[1]])

-----------------------------------------------------------------------------
(* Rows and constraints *)

VariableRow(name) == [name |-> name, is_active |-> TRUE]

\* the version row of a variable whose id was not flushed yet points nowhere
VersionRow_unflushed(vid, n, script) ==
    [variable_id |-> 0, version_number |-> n, sql_script |-> script]
VersionRow(vid, n, script) ==
    [variable_id |-> vid, version_number |-> n, sql_script |-> script]

\* variables.name is unique
uq_variable_name_off(rows, name) == TRUE
uq_variable_name(rows, name) == \A i \in DOMAIN rows : rows[i].name # name

\* UniqueConstraint('variable_id', 'version_number')
uq_variable_version_off(rows, vid, n) == TRUE
uq_variable_version(rows, vid, n) ==
    \A i \in DOMAIN rows :
        ~(rows[i].variable_id = vid /\ rows[i].version_number = n)

\* UniqueConstraint('application_id', 'variable_id')
uq_app_variable(rows, app, vid) ==
    \A i \in DOMAIN rows :
        ~(rows[i].application_id = app /\ rows[i].variable_id = vid)

VersionsOf(rows, vid) == SelectSeq(rows, LAMBDA r : r.variable_id = vid)

VersionNumbers(rows, vid) == {r.version_number : r \in Range(VersionsOf(rows, vid))}

-----------------------------------------------------------------------------
(* Requests, handler locals and responses *)

NoReq == [op |-> "none", name |-> "", sql_script |-> <<>>, variable_id |-> 0,
          app_id |-> "", variable_ids |-> <<>>]

NoLoc == [latest |-> 0, latest_versions |-> <<>>]

NoResp == [status |-> 0, id |-> 0, listed |-> {}, calculated_variables |-> <<>>]

Status(code) == [NoResp EXCEPT !.status = code]

Init ==
    /\ variables = <<>>
    /\ variable_versions = <<>>
    /\ variable_results = <<>>
    /\ variable_executions = <<>>
    /\ pc = [w \in Workers |-> "idle"]
    /\ req = [w \in Workers |-> NoReq]
    /\ loc = [w \in Workers |-> NoLoc]
    /\ resp = [w \in Workers |-> NoResp]
    /\ nreq = 0

\* a worker takes the next request
Accept(w, r) ==
    /\ pc[w] = "idle"
    /\ nreq < MaxRequests
    /\ nreq' = nreq + 1
    /\ req' = [req EXCEPT ![w] = r]

\* the handler returns or raises: the response goes out
Reply_retry(w, r) ==
    /\ pc' = pc
    /\ loc' = loc
    /\ resp' = [resp EXCEPT ![w] = r]
Reply(w, r) ==
    /\ pc' = [pc EXCEPT ![w] = "done"]
    /\ loc' = [loc EXCEPT ![w] = NoLoc]
    /\ resp' = [resp EXCEPT ![w] = r]

\* the response is sent and the session closed: the worker is free again
Return(w) ==
    /\ pc[w] = "done"
    /\ pc' = [pc EXCEPT ![w] = "idle"]
    /\ req' = [req EXCEPT ![w] = NoReq]
    /\ resp' = [resp EXCEPT ![w] = NoResp]
    /\ UNCHANGED <<store, loc, nreq>>

Continue(w, label, l) ==
    /\ pc' = [pc EXCEPT ![w] = label]
    /\ loc' = [loc EXCEPT ![w] = l]
    /\ resp' = [resp EXCEPT ![w] = NoResp]

-----------------------------------------------------------------------------
(* create_variable *)

\* the name check that opens the handler
create_variable(w, name, script) ==
    /\ Accept(w, [NoReq EXCEPT !.op = "create", !.name = name, !.sql_script = script])
    /\ IF \E i \in DOMAIN variables : variables[i].name = name
       THEN Reply(w, Status(400))
       ELSE Continue(w, "create_commit", NoLoc)
    /\ UNCHANGED store

\* db.add(var); db.flush(); db.add(version); db.commit()
create_variable_commit(w) ==
    /\ pc[w] = "create_commit"
    /\ IF uq_variable_name(variables, req[w].name)
       THEN /\ variables' = Append(variables, VariableRow(req[w].name))
            /\ variable_versions' =
                   Append(variable_versions,
                          VersionRow(Len(variables) + 1, 1, req[w].sql_script))
            /\ Reply(w, [Status(201) EXCEPT !.id = Len(variables) + 1])
       ELSE /\ UNCHANGED <<variables, variable_versions>>
            /\ Reply(w, Status(500))
    /\ UNCHANGED <<variable_results, variable_executions, req, nreq>>

-----------------------------------------------------------------------------
(* update_variable *)

\* latest.version_number + 1
next_version_number_skip(latest) == latest + 2
next_version_number(latest) == latest + 1

\* db.query(Variable).filter_by(id=variable_id, is_active=True).first()
active_variable_any(rows, id) == id \in DOMAIN rows
active_variable(rows, id) == id \in DOMAIN rows /\ rows[id].is_active

\* the two queries that open the handler: the active variable, its latest version
update_variable(w, id, script) ==
    /\ Accept(w, [NoReq EXCEPT !.op = "update", !.variable_id = id, !.sql_script = script])
    /\ \A n \in VersionNumbers(variable_versions, id) : n < MaxVersion
    /\ IF ~active_variable(variables, id)
       THEN Reply(w, Status(404))
       ELSE IF VersionNumbers(variable_versions, id) = {}
       THEN Reply(w, Status(500))
       ELSE Continue(w, "update_commit",
                     [NoLoc EXCEPT !.latest = SetMax(VersionNumbers(variable_versions, id))])
    /\ UNCHANGED store

\* db.add(new_version): the update stores a new row and touches no other
add_version_in_place(rows, row) ==
    IF \E i \in DOMAIN rows : rows[i].variable_id = row.variable_id
    THEN [rows EXCEPT ![SetMax({i \in DOMAIN rows :
                                   rows[i].variable_id = row.variable_id})] = row]
    ELSE Append(rows, row)
add_version(rows, row) == Append(rows, row)

\* db.add(new_version); db.commit()
update_variable_commit(w) ==
    /\ pc[w] = "update_commit"
    /\ LET n == next_version_number(loc[w].latest) IN
       IF uq_variable_version(variable_versions, req[w].variable_id, n)
       THEN /\ variable_versions' =
                   add_version(variable_versions,
                               VersionRow(req[w].variable_id, n, req[w].sql_script))
            /\ Reply(w, [Status(200) EXCEPT !.id = req[w].variable_id])
       ELSE /\ UNCHANGED variable_versions
            /\ Reply(w, Status(500))
    /\ UNCHANGED <<variables, variable_results, variable_executions, req, nreq>>

-----------------------------------------------------------------------------
(* get_all_variables and delete_variable *)

\* db.query(Variable).filter_by(is_active=True).all()
active_variables_unfiltered(rows) == DOMAIN rows
active_variables(rows) == {i \in DOMAIN rows : rows[i].is_active}

get_all_variables(w) ==
    /\ Accept(w, [NoReq EXCEPT !.op = "list"])
    /\ Reply(w, [Status(200) EXCEPT !.listed = active_variables(variables)])
    /\ UNCHANGED store

\* var.is_active = False
soft_delete_toggle(rows, id) == [rows EXCEPT ![id].is_active = ~rows[id].is_active]
soft_delete_noop(rows, id) == rows
soft_delete(rows, id) == [rows EXCEPT ![id].is_active = FALSE]

delete_variable(w, id) ==
    /\ Accept(w, [NoReq EXCEPT !.op = "delete", !.variable_id = id])
    /\ IF id \notin DOMAIN variables
       THEN /\ Reply(w, Status(404))
            /\ UNCHANGED variables
       ELSE /\ variables' = soft_delete(variables, id)
            /\ Reply(w, [Status(200) EXCEPT !.id = id])
    /\ UNCHANGED <<variable_versions, variable_results, variable_executions>>

-----------------------------------------------------------------------------
(* get_variable *)

\* db.query(Variable).filter_by(id=variable_id).first()
get_variable(w, id) ==
    /\ Accept(w, [NoReq EXCEPT !.op = "get", !.variable_id = id])
    /\ IF id \notin DOMAIN variables
       THEN Reply(w, Status(404))
       ELSE Reply(w, [Status(200) EXCEPT !.id = id])
    /\ UNCHANGED store

-----------------------------------------------------------------------------
(* calculate_variables *)

\* if not payload.variable_ids
no_variable_ids_unchecked(ids) == FALSE
no_variable_ids(ids) == ids = <<>>

\* the subquery: max(version_number) per requested variable_id, and the join
\* of the versions with it; rows come back in primary key order
max_version_oldest(rows, vid) ==
    CHOOSE m \in VersionNumbers(rows, vid) :
        \A x \in VersionNumbers(rows, vid) : m <= x
max_version(rows, vid) == SetMax(VersionNumbers(rows, vid))

is_latest(rows, ids, r) ==
    /\ r.variable_id \in Range(ids)
    /\ r.version_number = max_version(rows, r.variable_id)

RECURSIVE query_latest_versions_per_id(_, _)
query_latest_versions_per_id(rows, ids) ==
    IF ids = <<>> THEN <<>>
    ELSE SelectSeq(rows, LAMBDA r : /\ r.variable_id = Head(ids)
                                    /\ r.version_number = max_version(rows, r.variable_id))
         \o query_latest_versions_per_id(rows, Tail(ids))
query_latest_versions_unfiltered(rows, ids) ==
    SelectSeq(rows, LAMBDA r : r.version_number = max_version(rows, r.variable_id))
query_latest_versions(rows, ids) == SelectSeq(rows, LAMBDA r : is_latest(rows, ids, r))

\* the validation and the query that open the handler
calculate_variables(w, app, ids) ==
    /\ Accept(w, [NoReq EXCEPT !.op = "calculate", !.app_id = app, !.variable_ids = ids])
    /\ IF no_variable_ids(ids)
       THEN Reply(w, Status(400))
       ELSE IF query_latest_versions(variable_versions, ids) = <<>>
       THEN Reply(w, Status(404))
       ELSE Continue(w, "calculate_execute",
                     [NoLoc EXCEPT !.latest_versions =
                                       query_latest_versions(variable_versions, ids)])
    /\ UNCHANGED store

\* one CTE block per latest version: var_{var_id} AS (... CAST((sql_code) AS TEXT) ...)
cte_name_fixed(var_id) == <<"var_">>
cte_name(var_id) == <<"var_", var_id>>

\* the text of a block holds the placeholder :app_id, which the store binds
\* to the app_id parameter of db.execute; var_id and sql_code are interpolated
cte_block(var) ==
    [name |-> cte_name(var.variable_id), application_id |-> ":app_id",
     variable_id |-> var.variable_id, sql_code |-> sql_code(var.sql_script)]

cte_blocks(latest_versions) ==
    [i \in DOMAIN latest_versions |-> cte_block(latest_versions[i])]

\* INSERT INTO variable_results (application_id, variable_id, value, calculated_by)
\* SELECT *, 'system' AS calculated_by FROM var_{var_id}
result_row_swapped(app, blk) ==
    [application_id |-> app, variable_id |-> blk.variable_id,
     value |-> "system", calculated_by |-> CastAsText(blk.sql_code)]
result_row(app, blk) ==
    [application_id |-> app, variable_id |-> blk.variable_id,
     value |-> CastAsText(blk.sql_code), calculated_by |-> "system"]

result_rows(app, blocks) == [i \in DOMAIN blocks |-> result_row(app, blocks[i])]

\* the statement is prepared: every fragment parses, no CTE name occurs twice
statement_valid(blocks) ==
    /\ \A i \in DOMAIN blocks : Executes(blocks[i].sql_code)
    /\ \A i, j \in DOMAIN blocks : i # j => blocks[i].name # blocks[j].name

\* the rows pass uq_app_variable against the table and against each other
insert_allowed(table, rows) ==
    /\ \A i \in DOMAIN rows :
           uq_app_variable(table, rows[i].application_id, rows[i].variable_id)
    /\ \A i, j \in DOMAIN rows :
           i # j => ~(rows[i].application_id = rows[j].application_id
                      /\ rows[i].variable_id = rows[j].variable_id)

\* the rows the one INSERT statement stores: all of them, or none when the
\* statement fails
inserted_rows_partial(table, app, blocks) ==
    result_rows(app, SelectSeq(blocks, LAMBDA b :
                                   /\ Executes(b.sql_code)
                                   /\ uq_app_variable(table, app, b.variable_id)))
inserted_rows(table, app, blocks) ==
    IF statement_valid(blocks) /\ insert_allowed(table, result_rows(app, blocks))
    THEN result_rows(app, blocks)
    ELSE <<>>

\* db.execute(text(sql_results), {"app_id": payload.app_id}); db.commit()
calculate_variables_execute(w) ==
    /\ pc[w] = "calculate_execute"
    /\ LET blocks == cte_blocks(loc[w].latest_versions) IN
       /\ variable_results' =
              variable_results \o inserted_rows(variable_results, req[w].app_id, blocks)
       /\ IF statement_valid(blocks)
             /\ insert_allowed(variable_results, result_rows(req[w].app_id, blocks))
          THEN Reply(w, [Status(200) EXCEPT !.calculated_variables =
                   [i \in DOMAIN loc[w].latest_versions |->
                        loc[w].latest_versions[i].variable_id]])
          ELSE Reply(w, Status(500))
    /\ UNCHANGED <<variables, variable_versions, variable_executions, req, nreq>>

-----------------------------------------------------------------------------

Next ==
    \/ \E w \in Workers, name \in Names, script \in CreateScripts :
           create_variable(w, name, script)
    \/ \E w \in Workers : create_variable_commit(w)
    \/ \E w \in Workers, id \in RequestIds, script \in UpdateScripts :
           update_variable(w, id, script)
    \/ \E w \in Workers : update_variable_commit(w)
    \/ \E w \in Workers : get_all_variables(w)
    \/ \E w \in Workers, id \in RequestIds : delete_variable(w, id)
    \/ \E w \in Workers, id \in RequestIds : get_variable(w, id)
    \/ \E w \in Workers, app \in Apps, ids \in IdLists : calculate_variables(w, app, ids)
    \/ \E w \in Workers : calculate_variables_execute(w)
    \/ \E w \in Workers : Return(w)

Spec == Init /\ [][Next]_vars

\* a calculation that has resolved its versions goes on: db.execute returns
\* or raises, and the response goes out
FairSpec ==
    /\ Spec
    /\ \A w \in Workers : WF_vars(calculate_variables_execute(w))

-----------------------------------------------------------------------------
(* Calculation over arbitrary fragment texts.  sql_script is any string of *)
(* at least one character (min_length=1), so the store may hold any        *)
(* non-empty token sequence as the fragment of a version.  The states      *)
(* below are those after two create_variable requests: "age" with any      *)
(* fragment of at most MaxLen tokens, "income" with SELECT 30.             *)

MaxLen == 3

Tokens == {" ", ";", "SELECT 30"}

Fragments == UNION {[1 .. n -> Tokens] : n \in 1 .. MaxLen}

InitFragments ==
    /\ \E script \in Fragments :
           /\ variables = <<VariableRow("age"), VariableRow("income")>>
           /\ variable_versions = <<VersionRow(1, 1, script), VersionRow(2, 1, F30)>>
    /\ variable_results = <<>>
    /\ variable_executions = <<>>
    /\ pc = [w \in Workers |-> "idle"]
    /\ req = [w \in Workers |-> NoReq]
    /\ loc = [w \in Workers |-> NoLoc]
    /\ resp = [w \in Workers |-> NoResp]
    /\ nreq = 0

NextFragments ==
    \/ \E w \in Workers, app \in Apps, ids \in IdLists : calculate_variables(w, app, ids)
    \/ \E w \in Workers : calculate_variables_execute(w)
    \/ \E w \in Workers : Return(w)

SpecFragments == InitFragments /\ [][NextFragments]_vars

-----------------------------------------------------------------------------
(* The response of calculate_variables read as a summary.  The handler      *)
(* returns status, application_id and calculated_variables, and nothing     *)
(* else: it has no failed part and no unresolved part.                      *)

summary_succeeded(r) == Range(r.calculated_variables)
summary_failed(r) == {}
summary_unresolved(r) == {}

Parts(r, id) ==
    (IF id \in summary_succeeded(r) THEN 1 ELSE 0)
    + (IF id \in summary_failed(r) THEN 1 ELSE 0)
    + (IF id \in summary_unresolved(r) THEN 1 ELSE 0)

ResultsFor(rows, app, vid) ==
    SelectSeq(rows, LAMBDA r : r.application_id = app /\ r.variable_id = vid)

ExecutionsFor(rows, app, vid) ==
    SelectSeq(rows, LAMBDA r : r.application_id = app /\ r.variable_id = vid)

\* the step of worker w that executes the batch statement and replies
Executing(w) == pc[w] = "calculate_execute" /\ pc'[w] = "done"

\* the step in which worker w takes a request of kind op
Accepting(w, op) == nreq' = nreq + 1 /\ pc[w] = "idle" /\ req'[w].op = op

Yields(script, n) ==
    Executes(sql_code(script)) /\ Scalar[NonBlank(sql_code(script))[1]] = n

-----------------------------------------------------------------------------
(* C1: a calculate request with a non-empty id list that returns a         *)
(* response accounts for every requested id in exactly one of the          *)
(* succeeded, failed and unresolved parts of the summary.                  *)
C1_EveryIdAccounted ==
    \A w \in Workers :
        (pc[w] = "done" /\ req[w].op = "calculate" /\ resp[w].status = 200)
        => \A id \in Range(req[w].variable_ids) : Parts(resp[w], id) = 1

(* C2: a second calculate of a pair whose variable was never updated       *)
(* completes successfully, leaves exactly one Result row for the pair and  *)
(* leaves one Execution row per call, two or more in all.                  *)
C2_RecalculateIdempotent ==
    [][\A w \in Workers : \A v \in RequestIds :
          (/\ Executing(w)
           /\ req[w].variable_ids = <<v>>
           /\ VersionNumbers(variable_versions, v) = {1}
           /\ Yields(loc[w].latest_versions[1].sql_script, 30)
           /\ ResultsFor(variable_results, req[w].app_id, v) # <<>>)
          => /\ resp'[w].status = 200
             /\ Len(ResultsFor(variable_results', req[w].app_id, v)) = 1
             /\ Len(ExecutionsFor(variable_executions', req[w].app_id, v)) >= 2]_vars

\* no two Result rows have the same (application_id, variable_id)
C3_AtMostOneResult ==
    \A i, j \in DOMAIN variable_results :
        (/\ variable_results[i].application_id = variable_results[j].application_id
         /\ variable_results[i].variable_id = variable_results[j].variable_id)
        => i = j

(* C3: there is never more than one Result row per (application_id,        *)
(* variable_id), and of two overlapping calculate requests of the same     *)
(* pair the one that writes last wins: after its write the one row of the  *)
(* pair holds its value.                                                   *)
C3_LastWriterWins ==
    /\ []C3_AtMostOneResult
    /\ [][\A w, o \in Workers :
            (/\ w # o
             /\ Executing(w)
             /\ statement_valid(cte_blocks(loc[w].latest_versions))
             /\ pc[o] = "done" /\ req[o].op = "calculate" /\ resp[o].status = 200
             /\ req[o].app_id = req[w].app_id)
            => \A i \in DOMAIN loc[w].latest_versions :
                   LET blk == cte_block(loc[w].latest_versions[i]) IN
                   blk.variable_id \in Range(resp[o].calculated_variables)
                   => /\ Len(ResultsFor(variable_results', req[w].app_id,
                                        blk.variable_id)) = 1
                      /\ ResultsFor(variable_results', req[w].app_id,
                                    blk.variable_id)[1].value
                             = CastAsText(blk.sql_code)]_vars

(* C4: every successful update_variable adds exactly one version, numbered *)
(* the previous maximum of the variable plus one; no step adds more than   *)
(* one version to a variable, and the version numbers of a variable are    *)
(* always exactly 1..k, none reused and none skipped.                      *)
C4_VersionMonotonic ==
    [][/\ \A w \in Workers :
            (pc[w] = "update_commit" /\ resp'[w].status = 200)
            => LET v == req[w].variable_id IN
               /\ Len(variable_versions') = Len(variable_versions) + 1
               /\ variable_versions'[Len(variable_versions')].variable_id = v
               /\ variable_versions'[Len(variable_versions')].version_number
                      = SetMax(VersionNumbers(variable_versions, v)) + 1
       /\ \A v \in RequestIds :
            /\ Len(VersionsOf(variable_versions', v))
                   <= Len(VersionsOf(variable_versions, v)) + 1
            /\ \A k \in DOMAIN VersionsOf(variable_versions', v) :
                   VersionsOf(variable_versions', v)[k].version_number = k]_vars

C4_Witness ==
    \E w \in Workers :
        /\ pc[w] = "done" /\ req[w].op = "update" /\ resp[w].status = 200
        /\ VersionNumbers(variable_versions, req[w].variable_id) = 1 .. 2

(* C5: whatever the interleaving of concurrent update_variable requests,   *)
(* no two version rows have the same (variable_id, version number), and    *)
(* the version numbers of a variable are contiguous from 1 and increase    *)
(* in the order the rows were stored.                                      *)
C5_VersionsUniqueContiguous ==
    /\ \A i, j \in DOMAIN variable_versions :
           (/\ variable_versions[i].variable_id = variable_versions[j].variable_id
            /\ variable_versions[i].version_number = variable_versions[j].version_number)
           => i = j
    /\ \A v \in RequestIds :
           /\ VersionNumbers(variable_versions, v)
                  = 1 .. Cardinality(VersionNumbers(variable_versions, v))
           /\ \A k, l \in DOMAIN VersionsOf(variable_versions, v) :
                  k < l => VersionsOf(variable_versions, v)[k].version_number
                               < VersionsOf(variable_versions, v)[l].version_number

\* two update requests of the same variable overlapped: both read version 1,
\* one stored version 2, the other was refused
C5_Witness ==
    \E w, o \in Workers :
        /\ w # o
        /\ pc[w] = "done" /\ req[w].op = "update" /\ resp[w].status = 200
        /\ pc[o] = "done" /\ req[o].op = "update" /\ resp[o].status = 500
        /\ req[w].variable_id = req[o].variable_id

(* C6: a calculate request appends one Execution row per requested         *)
(* variable, whether the calculation succeeds or fails, and no step        *)
(* changes or removes an existing Execution row.                           *)
C6_OneExecutionPerAttempt ==
    [][/\ \A w \in Workers :
            Executing(w)
            => Len(variable_executions')
                   = Len(variable_executions) + Cardinality(Range(req[w].variable_ids))
       /\ Len(variable_executions') >= Len(variable_executions)
       /\ SubSeq(variable_executions', 1, Len(variable_executions))
              = variable_executions]_vars

(* C7: when exactly one of the N resolved fragments of a request fails at  *)
(* execution, the caller gets a summary, the other N-1 variables are       *)
(* reported as succeeded with their Result rows written, and the failing   *)
(* variable is reported as failed.                                         *)
C7_Isolation ==
    [][\A w \in Workers :
          LET blocks == cte_blocks(loc[w].latest_versions)
              bad == {i \in DOMAIN blocks : ~Executes(blocks[i].sql_code)}
              good == DOMAIN blocks \ bad
          IN (/\ Executing(w)
              /\ Len(blocks) >= 2
              /\ Cardinality(bad) = 1
              /\ \A i \in good :
                     ResultsFor(variable_results, req[w].app_id,
                                blocks[i].variable_id) = <<>>)
             => /\ resp'[w].status = 200
                /\ \A i \in good :
                     /\ blocks[i].variable_id \in summary_succeeded(resp'[w])
                     /\ ResultsFor(variable_results', req[w].app_id,
                                   blocks[i].variable_id) # <<>>
                /\ \A i \in bad :
                     blocks[i].variable_id \in summary_failed(resp'[w])]_vars

(* C8: delete_variable on an existing variable only clears its active     *)
(* flag: the variable leaves the list of active variables, and its row     *)
(* and every Version, Result and Execution row stay as they were; a list   *)
(* request returns no inactive variable.                                   *)
C8_SoftDelete ==
    [][\A w \in Workers :
          /\ (Accepting(w, "delete") /\ req'[w].variable_id \in DOMAIN variables)
             => LET id == req'[w].variable_id IN
                /\ resp'[w].status = 200
                /\ DOMAIN variables' = DOMAIN variables
                /\ \A i \in DOMAIN variables :
                       /\ variables'[i].name = variables[i].name
                       /\ variables'[i].is_active = (variables[i].is_active /\ i # id)
                /\ id \notin active_variables(variables')
                /\ variable_versions' = variable_versions
                /\ variable_results' = variable_results
                /\ variable_executions' = variable_executions
          /\ Accepting(w, "list")
             => resp'[w].listed = {i \in DOMAIN variables : variables[i].is_active}]_vars

\* a variable with a version and a result has been deleted, and a list
\* request answered after it
C8_Witness ==
    \E w, o \in Workers :
        /\ pc[w] = "done" /\ req[w].op = "delete" /\ resp[w].status = 200
        /\ ~variables[req[w].variable_id].is_active
        /\ VersionsOf(variable_versions, req[w].variable_id) # <<>>
        /\ \E a \in Apps : ResultsFor(variable_results, a, req[w].variable_id) # <<>>
        /\ pc[o] = "done" /\ req[o].op = "list"
        /\ req[w].variable_id \notin resp[o].listed

(* C9: a requested id whose variable is inactive, or which has no version, *)
(* is unresolved: the resolution of a calculate request hands no version   *)
(* of such an id to the composition, so that no fragment of it is executed *)
(* and no Result is written for it.                                        *)
C9_InactiveUnresolved ==
    [][\A w \in Workers :
          (Accepting(w, "calculate") /\ req'[w].variable_ids # <<>>)
          => LET unresolvable ==
                     {id \in Range(req'[w].variable_ids) :
                          \/ id \notin DOMAIN variables
                          \/ ~variables[id].is_active
                          \/ VersionNumbers(variable_versions, id) = {}}
             IN \A i \in DOMAIN loc'[w].latest_versions :
                    loc'[w].latest_versions[i].variable_id \notin unresolvable]_vars

(* C10: the first calculate of a newly created variable whose fragment     *)
(* yields the scalar 30 reports the id as succeeded and stores one Result  *)
(* row for (application, id), whose value is the text "30".                *)
C10_CreateThenCalculate ==
    [][\A w \in Workers : \A v \in RequestIds :
          (/\ Executing(w)
           /\ req[w].variable_ids = <<v>>
           /\ Len(loc[w].latest_versions) = 1
           /\ loc[w].latest_versions[1].version_number = 1
           /\ Yields(loc[w].latest_versions[1].sql_script, 30)
           /\ ResultsFor(variable_results, req[w].app_id, v) = <<>>)
          => /\ resp'[w].status = 200
             /\ resp'[w].calculated_variables = <<v>>
             /\ Len(ResultsFor(variable_results', req[w].app_id, v)) = 1
             /\ ResultsFor(variable_results', req[w].app_id, v)[1].value = "30"]_vars

C10_Witness ==
    \E w \in Workers : \E v \in RequestIds :
        /\ pc[w] = "done" /\ req[w].op = "calculate" /\ resp[w].status = 200
        /\ req[w].variable_ids = <<v>> /\ req[w].app_id = "A1"
        /\ VersionNumbers(variable_versions, v) = {1}
        /\ Yields(VersionsOf(variable_versions, v)[1].sql_script, 30)
        /\ Len(ResultsFor(variable_results, "A1", v)) = 1
        /\ ResultsFor(variable_results, "A1", v)[1].value = "30"

\* the step of worker w that ends its request with a response
Replying(w) == pc[w] # "done" /\ pc'[w] = "done"

LatestOf(rows, vid) ==
    VersionsOf(rows, vid)[CHOOSE k \in DOMAIN VersionsOf(rows, vid) :
                              VersionsOf(rows, vid)[k].version_number
                                  = SetMax(VersionNumbers(rows, vid))]

(* C11: a calculate of a variable that was already calculated for the      *)
(* application and then updated leaves exactly one Result row for the      *)
(* pair, holding the value of the new fragment, and the variable has       *)
(* exactly two versions.                                                   *)
C11_UpdateThenRecalculate ==
    [][\A w \in Workers : \A v \in RequestIds :
          (/\ Executing(w)
           /\ req[w].variable_ids = <<v>>
           /\ Len(loc[w].latest_versions) = 1
           /\ loc[w].latest_versions[1].version_number = 2
           /\ Executes(sql_code(loc[w].latest_versions[1].sql_script))
           /\ VersionNumbers(variable_versions, v) = {1, 2}
           /\ ResultsFor(variable_results, req[w].app_id, v) # <<>>)
          => /\ Len(ResultsFor(variable_results', req[w].app_id, v)) = 1
             /\ ResultsFor(variable_results', req[w].app_id, v)[1].value
                    = CastAsText(sql_code(loc[w].latest_versions[1].sql_script))
             /\ Len(VersionsOf(variable_versions', v)) = 2]_vars

C13_EmptyIdsRejected ==
    [][\A w \in Workers :
          (Accepting(w, "calculate") /\ req'[w].variable_ids = <<>>)
          => /\ pc'[w] = "done"
             /\ resp'[w].status = 400
             /\ loc'[w].latest_versions = <<>>
             /\ variables' = variables
             /\ variable_versions' = variable_versions
             /\ variable_results' = variable_results
             /\ variable_executions' = variable_executions]_vars

C13_Witness ==
    \E w \in Workers :
        /\ pc[w] = "done" /\ req[w].op = "calculate"
        /\ req[w].variable_ids = <<>>
        /\ resp[w].status = 400
        /\ variable_versions # <<>>

\* no two variables have the same name
C14_NamesUnique ==
    \A i, j \in DOMAIN variables : variables[i].name = variables[j].name => i = j

(* C14: in every reachable state no two variables, active or not, have     *)
(* the same name; a create_variable whose name is in use when it replies   *)
(* is rejected and adds neither a Variable nor a Version row.              *)
C14_NameUniqueness ==
    /\ []C14_NamesUnique
    /\ [][\A w \in Workers :
            (/\ Replying(w)
             /\ req'[w].op = "create"
             /\ \E i \in DOMAIN variables : variables[i].name = req'[w].name)
            => /\ resp'[w].status \in {400, 500}
               /\ variables' = variables
               /\ variable_versions' = variable_versions]_vars

\* two overlapping creates of one name: one stored, the other refused at commit
C14_Witness ==
    \E w, o \in Workers :
        /\ w # o
        /\ pc[w] = "done" /\ req[w].op = "create" /\ resp[w].status = 201
        /\ pc[o] = "done" /\ req[o].op = "create" /\ resp[o].status = 500
        /\ req[w].name = req[o].name

(* C15: for every variable whose fragment fails at execution, the request  *)
(* appends one Execution row with status failure, an error detail and no   *)
(* Result reference, and the Result rows of the pair stay as they were.    *)
C15_FailureExecutionRow ==
    [][\A w \in Workers :
          Executing(w)
          => LET blocks == cte_blocks(loc[w].latest_versions) IN
             \A i \in DOMAIN blocks :
                 ~Executes(blocks[i].sql_code)
                 => /\ \E k \in DOMAIN variable_executions' \ DOMAIN variable_executions :
                           /\ variable_executions'[k].variable_id = blocks[i].variable_id
                           /\ variable_executions'[k].status = "failure"
                           /\ variable_executions'[k].error_message # ""
                           /\ variable_executions'[k].result_id = 0
                    /\ ResultsFor(variable_results', req[w].app_id, blocks[i].variable_id)
                           = ResultsFor(variable_results, req[w].app_id,
                                        blocks[i].variable_id)]_vars

\* every variable has its version 1
C16_HasVersionOne ==
    \A i \in DOMAIN variables : 1 \in VersionNumbers(variable_versions, i)

(* C16: a successful create_variable adds in one step one active Variable  *)
(* row and one Version row numbered 1 for it; every variable of every      *)
(* state has a version 1, and an update_variable of an active variable     *)
(* always finds a latest version.                                          *)
C16_CreateAtomic ==
    /\ []C16_HasVersionOne
    /\ [][\A w \in Workers :
            /\ (pc[w] = "create_commit" /\ resp'[w].status = 201)
               => /\ Len(variables') = Len(variables) + 1
                  /\ SubSeq(variables', 1, Len(variables)) = variables
                  /\ variables'[Len(variables')]
                         = [name |-> req[w].name, is_active |-> TRUE]
                  /\ Len(variable_versions') = Len(variable_versions) + 1
                  /\ variable_versions'[Len(variable_versions')]
                         = [variable_id |-> Len(variables'), version_number |-> 1,
                            sql_script |-> req[w].sql_script]
            /\ (/\ Accepting(w, "update")
                /\ req'[w].variable_id \in DOMAIN variables
                /\ variables[req'[w].variable_id].is_active)
               => /\ pc'[w] = "update_commit"
                  /\ loc'[w].latest >= 1]_vars

\* an update found version 1 of a variable whose create is just answered
C16_Witness ==
    \E w, o \in Workers :
        /\ pc[w] = "done" /\ req[w].op = "create" /\ resp[w].status = 201
        /\ pc[o] = "update_commit"
        /\ req[o].variable_id = resp[w].id
        /\ loc[o].latest = 1

(* C17: no step changes or removes an existing Version row; a successful   *)
(* update_variable only adds one row.                                      *)
C17_VersionsAppendOnly ==
    [][/\ Len(variable_versions') >= Len(variable_versions)
       /\ SubSeq(variable_versions', 1, Len(variable_versions)) = variable_versions
       /\ \A w \in Workers :
            (pc[w] = "update_commit" /\ resp'[w].status = 200)
            => Len(variable_versions') = Len(variable_versions) + 1]_vars

\* an update was stored next to the version the create had written
C17_Witness ==
    \E w \in Workers :
        /\ pc[w] = "done" /\ req[w].op = "update" /\ resp[w].status = 200
        /\ \E i, j \in DOMAIN variable_versions :
              /\ i < j
              /\ variable_versions[i].variable_id = req[w].variable_id
              /\ variable_versions[j].variable_id = req[w].variable_id
              /\ variable_versions[i].version_number = 1
              /\ variable_versions[i].sql_script \in CreateScripts
              /\ variable_versions[j].sql_script = req[w].sql_script

(* C18: get_variable of a variable that was soft-deleted raises the        *)
(* not-found error.                                                        *)
C18_GetInactiveNotFound ==
    [][\A w \in Workers :
          (/\ Accepting(w, "get")
           /\ req'[w].variable_id \in DOMAIN variables
           /\ ~variables[req'[w].variable_id].is_active)
          => resp'[w].status = 404]_vars

(* C19: the Result rows of one calculate request are stored all together   *)
(* or not at all: the step that executes the batch appends either one row  *)
(* per resolved version, and then answers 200, or no row; no other step    *)
(* changes the Result table.                                               *)
C19_BatchAtomic ==
    [][/\ Len(variable_results') >= Len(variable_results)
       /\ SubSeq(variable_results', 1, Len(variable_results)) = variable_results
       /\ (\A w \in Workers : ~Executing(w)) => variable_results' = variable_results
       /\ \A w \in Workers :
            Executing(w)
            => LET n == Len(variable_results') - Len(variable_results) IN
               /\ n \in {0, Len(loc[w].latest_versions)}
               /\ (resp'[w].status = 200) <=> (n = Len(loc[w].latest_versions))]_vars

\* a batch of two fragments failed on one of them, and the row of the other,
\* whose fragment executes, is not stored
C19_Witness ==
    \E w \in Workers :
        /\ pc[w] = "done" /\ req[w].op = "calculate" /\ resp[w].status = 500
        /\ req[w].variable_ids = <<1, 2>>
        /\ Len(variables) = 2
        /\ \E v \in {1, 2} : Executes(sql_code(LatestOf(variable_versions, v).sql_script))
        /\ variable_results = <<>>

(* C20: the resolution of a calculate request returns, for every requested *)
(* id that has a version, exactly one version: the row with the maximum    *)
(* version number of the variable in the table at the time of the read.    *)
C20_ResolvesMaxVersion ==
    [][\A w \in Workers :
          (Accepting(w, "calculate") /\ req'[w].variable_ids # <<>>)
          => \A id \in Range(req'[w].variable_ids) :
                 VersionNumbers(variable_versions, id) # {}
                 => /\ Len(VersionsOf(loc'[w].latest_versions, id)) = 1
                    /\ VersionsOf(loc'[w].latest_versions, id)[1]
                           = LatestOf(variable_versions, id)
                    /\ \A n \in VersionNumbers(variable_versions, id) :
                           n <= VersionsOf(loc'[w].latest_versions, id)[1].version_number]_vars

\* a request resolved version 2 of a variable that an update had committed
C20_Witness ==
    \E w \in Workers :
        /\ pc[w] = "calculate_execute"
        /\ \E i \in DOMAIN loc[w].latest_versions :
              /\ loc[w].latest_versions[i].version_number = 2
              /\ loc[w].latest_versions[i].sql_script \in UpdateScripts

C22_FragmentNormalized ==
    \A w \in Workers :
        pc[w] = "calculate_execute"
        => \A i \in DOMAIN cte_blocks(loc[w].latest_versions) :
               LET code == cte_blocks(loc[w].latest_versions)[i].sql_code IN
               /\ code # <<>> => /\ Head(code) # " "
                                /\ code[Len(code)] \notin {" ", ";"}
               /\ sql_code(code) = code

(* C23: a resolved version whose fragment is empty after normalization is  *)
(* not embedded into the batch and is reported as failed in the summary of *)
(* the request, and every sibling whose fragment executes and has no       *)
(* Result yet gets its Result row.                                         *)
C23_EmptyFragmentIsolated ==
    [][\A w \in Workers :
          LET lv == loc[w].latest_versions
              empty == {i \in DOMAIN lv : sql_code(lv[i].sql_script) = <<>>}
          IN (Executing(w) /\ empty # {})
             => /\ \A i \in DOMAIN cte_blocks(lv) : cte_blocks(lv)[i].sql_code # <<>>
                /\ resp'[w].status = 200
                /\ \A i \in empty : lv[i].variable_id \in summary_failed(resp'[w])
                /\ \A i \in DOMAIN lv \ empty :
                       (/\ Executes(sql_code(lv[i].sql_script))
                        /\ ResultsFor(variable_results, req[w].app_id,
                                      lv[i].variable_id) = <<>>)
                       => ResultsFor(variable_results', req[w].app_id,
                                     lv[i].variable_id) # <<>>]_vars

ResolvedIds(latest_versions) ==
    {latest_versions[i].variable_id : i \in DOMAIN latest_versions}

(* C24: in a calculate request every requested id is, after the resolution,*)
(* resolved (its latest version goes to the execution) or unresolved; the  *)
(* one execution step takes every resolved id to succeeded (reported, its  *)
(* Result row stored) or failed (status 500, its Result rows as before)    *)
(* and leaves the unresolved ids as they are; a request that has answered  *)
(* only returns, so that no fragment is executed again; and every request  *)
(* that resolved a version eventually answers: it leaves the execution     *)
(* step, which it can only leave by answering.                             *)
C24_StateMachine ==
    /\ [][\A w \in Workers :
            /\ Accepting(w, "calculate")
               => /\ pc'[w] \in {"calculate_execute", "done"}
                  /\ \A id \in Range(req'[w].variable_ids) :
                         \/ /\ pc'[w] = "calculate_execute"
                            /\ id \in ResolvedIds(loc'[w].latest_versions)
                         \/ /\ id \notin ResolvedIds(loc'[w].latest_versions)
                            /\ pc'[w] = "done" => resp'[w].status = 404
            /\ pc[w] = "calculate_execute"
               => /\ req'[w] = req[w]
                  /\ pc'[w] \in {"calculate_execute", "done"}
                  /\ pc'[w] = "calculate_execute" => loc'[w] = loc[w]
                  /\ pc'[w] = "done"
                     => \A id \in Range(req[w].variable_ids) :
                            LET before == ResultsFor(variable_results, req[w].app_id, id)
                                after == ResultsFor(variable_results', req[w].app_id, id)
                            IN IF id \in ResolvedIds(loc[w].latest_versions)
                               THEN \/ /\ resp'[w].status = 200
                                       /\ id \in summary_succeeded(resp'[w])
                                       /\ Len(after) = Len(before) + 1
                                    \/ /\ resp'[w].status = 500
                                       /\ after = before
                               ELSE /\ id \notin summary_succeeded(resp'[w])
                                    /\ after = before
            /\ (pc[w] = "done" /\ req[w].op = "calculate")
               => \/ pc'[w] = "done" /\ req'[w] = req[w] /\ resp'[w] = resp[w]
                  \/ pc'[w] = "idle" /\ req'[w] = NoReq]_vars
    /\ \A w \in Workers : []<>(pc[w] # "calculate_execute")

\* a request of two ids has answered: one id succeeded, the other was unresolved
C24_Witness ==
    \E w \in Workers :
        /\ pc[w] = "done" /\ req[w].op = "calculate"
        /\ req[w].variable_ids = <<1, 2>>
        /\ resp[w].status = 200
        /\ resp[w].calculated_variables = <<1>>
        /\ Len(variable_results) = 1

\* the list names an id more than once
Repeats(ids) == Len(ids) > Cardinality(Range(ids))

(* C25: a calculate request whose id list names an id more than once       *)
(* resolves at most one version per id, composes one sub-computation per   *)
(* resolved id, under names that differ, and stores at most one Result row *)
(* per id; when every resolved fragment executes and no resolved id has a  *)
(* Result yet, the batch succeeds and stores exactly one row per id.       *)
C25_RepeatedIdOnce ==
    [][\A w \in Workers :
          /\ (Accepting(w, "calculate") /\ Repeats(req'[w].variable_ids))
             => \A id \in Range(req'[w].variable_ids) :
                    Len(VersionsOf(loc'[w].latest_versions, id))
                        = IF VersionNumbers(variable_versions, id) = {} THEN 0 ELSE 1
          /\ (Executing(w) /\ Repeats(req[w].variable_ids))
             => LET blocks == cte_blocks(loc[w].latest_versions)
                    fresh == \A i \in DOMAIN blocks :
                                 /\ Executes(blocks[i].sql_code)
                                 /\ ResultsFor(variable_results, req[w].app_id,
                                               blocks[i].variable_id) = <<>>
                IN /\ \A i, j \in DOMAIN blocks :
                          (blocks[i].variable_id = blocks[j].variable_id
                           \/ blocks[i].name = blocks[j].name) => i = j
                   /\ \A id \in Range(req[w].variable_ids) :
                          Len(ResultsFor(variable_results', req[w].app_id, id))
                              <= Len(ResultsFor(variable_results, req[w].app_id, id)) + 1
                   /\ fresh
                      => /\ resp'[w].status = 200
                         /\ \A id \in ResolvedIds(loc[w].latest_versions) :
                                Len(ResultsFor(variable_results', req[w].app_id, id)) = 1]_vars

\* a request naming variable 1 twice succeeded and stored its one Result row
C25_Witness ==
    \E w \in Workers :
        /\ pc[w] = "done" /\ req[w].op = "calculate"
        /\ req[w].variable_ids = <<1, 1>>
        /\ resp[w].status = 200
        /\ Len(ResultsFor(variable_results, req[w].app_id, 1)) = 1

(* C26: an update_variable of an id that has no variable, or whose         *)
(* variable is inactive, is answered at once with the not-found error      *)
(* (404) and changes no table: no Version row is added and no version      *)
(* number changes.                                                         *)
C26_UpdateNotFound ==
    [][\A w \in Workers :
          (/\ Accepting(w, "update")
           /\ \/ req'[w].variable_id \notin DOMAIN variables
              \/ ~variables[req'[w].variable_id].is_active)
          => /\ pc'[w] = "done"
             /\ resp'[w].status = 404
             /\ variables' = variables
             /\ variable_versions' = variable_versions
             /\ variable_results' = variable_results
             /\ variable_executions' = variable_executions]_vars

\* an update of a soft-deleted variable was refused, and its version 1 is
\* still its only version
C26_Witness ==
    \E w \in Workers :
        /\ pc[w] = "done" /\ req[w].op = "update" /\ resp[w].status = 404
        /\ req[w].variable_id \in DOMAIN variables
        /\ ~variables[req[w].variable_id].is_active
        /\ VersionNumbers(variable_versions, req[w].variable_id) = {1}

(* C27: no step removes a variable or makes an inactive variable active,   *)
(* and a delete_variable of an inactive variable answers 200 and changes   *)
(* no table.                                                               *)
C27_ActiveOnlyCleared ==
    [][/\ \A i \in DOMAIN variables :
            /\ i \in DOMAIN variables'
            /\ variables'[i].is_active => variables[i].is_active
       /\ \A w \in Workers :
            (/\ Accepting(w, "delete")
             /\ req'[w].variable_id \in DOMAIN variables
             /\ ~variables[req'[w].variable_id].is_active)
            => /\ resp'[w].status = 200
               /\ variables' = variables
               /\ variable_versions' = variable_versions
               /\ variable_results' = variable_results
               /\ variable_executions' = variable_executions]_vars

\* two delete requests of one variable were both answered 200, the second
\* of them on the inactive variable
C27_Witness ==
    \E w, o \in Workers :
        /\ w # o
        /\ pc[w] = "done" /\ req[w].op = "delete" /\ resp[w].status = 200
        /\ pc[o] = "done" /\ req[o].op = "delete" /\ resp[o].status = 200
        /\ req[w].variable_id = req[o].variable_id
        /\ ~variables[req[w].variable_id].is_active

====
